---- MODULE Spec2Model ----
(***************************************************************************)
(* Model of pkg/git/GitCliManager.go: the CLI-driven GitManager.  Strings  *)
(* are sequences of one-character strings, so that slicing                 *)
(* (logOut[:len(logOut)-1]), concatenation and JSON decoding are computed  *)
(* character by character.  Every facade method is one action; the         *)
(* external collaborators (os.MkdirAll, filepath.Abs, Stat, runCommand,    *)
(* FetchDiffStatBetweenCommits) answer nondeterministically.               *)
(***************************************************************************)
EXTENDS Integers, Sequences, FiniteSets, TLC

VARIABLES req, env, calls, ret

vars == <<req, env, calls, ret>>

----------------------------------------------------------------------------
(* Bounds *)

MaxFrags == 2          \* commits in a well-formed log output
MaxNumCommits == 10    \* largest IteratorRequest.CommitCount

----------------------------------------------------------------------------
(* Characters and string helpers *)

QUOTE == "\""
BSL == "\\"
NL == "\n"
TAB == "\t"

Digits == {"0", "1", "2", "3", "4", "5", "6", "7", "8", "9"}
Whitespace == {" ", NL, TAB, "\r"}

\* v is evaluated once and handed to F
Bind(v, F(_)) == CHOOSE r \in { F(x) : x \in {v} } : TRUE

RECURSIVE Concat(_)
Concat(ss) == IF Len(ss) = 0 THEN <<>> ELSE Head(ss) \o Concat(Tail(ss))

DigitChar(d) == CASE d = 0 -> "0" [] d = 1 -> "1" [] d = 2 -> "2" [] d = 3 -> "3"
                  [] d = 4 -> "4" [] d = 5 -> "5" [] d = 6 -> "6" [] d = 7 -> "7"
                  [] d = 8 -> "8" [] d = 9 -> "9"

DigitVal(c) == CASE c = "0" -> 0 [] c = "1" -> 1 [] c = "2" -> 2 [] c = "3" -> 3
                 [] c = "4" -> 4 [] c = "5" -> 5 [] c = "6" -> 6 [] c = "7" -> 7
                 [] c = "8" -> 8 [] c = "9" -> 9

\* strconv.Itoa
RECURSIVE ItoaNat(_)
ItoaNat(n) == IF n < 10 THEN <<DigitChar(n)>>
              ELSE Append(ItoaNat(n \div 10), DigitChar(n % 10))

Itoa(n) == IF n < 0 THEN <<"-">> \o ItoaNat(0 - n) ELSE ItoaNat(n)

----------------------------------------------------------------------------
(* encoding/json: syntax.  A parse result is [ok, pos, val]; a value is    *)
(* [t, s, items] with t in {"str","num","lit","arr","obj"}; the items of   *)
(* an object are [k, v] members in input order.                            *)

ParseFail == [ok |-> FALSE, pos |-> 0, val |-> [t |-> "none", s |-> <<>>, items |-> <<>>]]

ParseOk(p, v) == [ok |-> TRUE, pos |-> p, val |-> v]

JVal(t, s, items) == [t |-> t, s |-> s, items |-> items]

RECURSIVE SkipWs(_, _)
SkipWs(s, i) == IF i <= Len(s) /\ s[i] \in Whitespace THEN SkipWs(s, i + 1) ELSE i

\* the escapes of a JSON string literal that the modelled alphabet can spell
Unescape(c) == CASE c = QUOTE -> QUOTE [] c = BSL -> BSL [] c = "/" -> "/"
                 [] c = "n" -> NL [] c = "t" -> TAB [] c = "r" -> "\r"

EscapeChars == {QUOTE, BSL, "/", "n", "t", "r"}

\* i is the position after the opening quote
RECURSIVE ScanString(_, _, _)
ScanString(s, i, acc) ==
    IF i > Len(s) THEN ParseFail
    ELSE IF s[i] = QUOTE THEN ParseOk(i + 1, JVal("str", acc, <<>>))
    ELSE IF s[i] = BSL
         THEN IF i + 1 <= Len(s) /\ s[i + 1] \in EscapeChars
              THEN ScanString(s, i + 2, Append(acc, Unescape(s[i + 1])))
              ELSE ParseFail
    ELSE IF s[i] \in {NL, TAB, "\r"} THEN ParseFail   \* raw control character
    ELSE ScanString(s, i + 1, Append(acc, s[i]))

RECURSIVE ScanDigits(_, _)
ScanDigits(s, i) == IF i <= Len(s) /\ s[i] \in Digits THEN ScanDigits(s, i + 1) ELSE i

\* integer literals only: 0 | [1-9][0-9]*
ScanNumber(s, i) ==
    IF s[i] = "0" THEN ParseOk(i + 1, JVal("num", <<"0">>, <<>>))
    ELSE LET j == ScanDigits(s, i)
         IN ParseOk(j, JVal("num", SubSeq(s, i, j - 1), <<>>))

ScanLiteral(s, i, word) ==
    IF i + Len(word) - 1 <= Len(s) /\ SubSeq(s, i, i + Len(word) - 1) = word
    THEN ParseOk(i + Len(word), JVal("lit", word, <<>>))
    ELSE ParseFail

RECURSIVE ParseValue(_, _)
RECURSIVE ParseElems(_, _, _)
RECURSIVE ParseMembers(_, _, _)

\* i is the position of the next element; acc the elements so far (non-empty array)
ParseElems(s, i, acc) ==
    LET r == ParseValue(s, i)
    IN IF ~r.ok THEN ParseFail
       ELSE LET j == SkipWs(s, r.pos)
                acc2 == Append(acc, r.val)
            IN IF j > Len(s) THEN ParseFail
               ELSE IF s[j] = "," THEN ParseElems(s, j + 1, acc2)
               ELSE IF s[j] = "]" THEN ParseOk(j + 1, JVal("arr", <<>>, acc2))
               ELSE ParseFail

\* i is the position where the next key must start (after whitespace)
ParseMembers(s, i, acc) ==
    LET k0 == SkipWs(s, i)
    IN IF k0 > Len(s) \/ s[k0] # QUOTE THEN ParseFail
       ELSE LET k == ScanString(s, k0 + 1, <<>>)
            IN IF ~k.ok THEN ParseFail
               ELSE LET c == SkipWs(s, k.pos)
                    IN IF c > Len(s) \/ s[c] # ":" THEN ParseFail
                       ELSE LET v == ParseValue(s, c + 1)
                            IN IF ~v.ok THEN ParseFail
                               ELSE LET j == SkipWs(s, v.pos)
                                        acc2 == Append(acc, [k |-> k.val.s, v |-> v.val])
                                    IN IF j > Len(s) THEN ParseFail
                                       ELSE IF s[j] = "," THEN ParseMembers(s, j + 1, acc2)
                                       ELSE IF s[j] = "}" THEN ParseOk(j + 1, JVal("obj", <<>>, acc2))
                                       ELSE ParseFail

ParseValue(s, i0) ==
    LET i == SkipWs(s, i0)
    IN IF i > Len(s) THEN ParseFail
       ELSE IF s[i] = QUOTE THEN ScanString(s, i + 1, <<>>)
       ELSE IF s[i] \in Digits THEN ScanNumber(s, i)
       ELSE IF s[i] = "n" THEN ScanLiteral(s, i, <<"n", "u", "l", "l">>)
       ELSE IF s[i] = "t" THEN ScanLiteral(s, i, <<"t", "r", "u", "e">>)
       ELSE IF s[i] = "f" THEN ScanLiteral(s, i, <<"f", "a", "l", "s", "e">>)
       ELSE IF s[i] = "["
            THEN LET j == SkipWs(s, i + 1)
                 IN IF j <= Len(s) /\ s[j] = "]" THEN ParseOk(j + 1, JVal("arr", <<>>, <<>>))
                    ELSE ParseElems(s, i + 1, <<>>)
       ELSE IF s[i] = "{"
            THEN LET j == SkipWs(s, i + 1)
                 IN IF j <= Len(s) /\ s[j] = "}" THEN ParseOk(j + 1, JVal("obj", <<>>, <<>>))
                    ELSE ParseMembers(s, i + 1, <<>>)
       ELSE ParseFail

\* json.checkValid: one value, then only whitespace up to the end of input
ParseDocument(s) ==
    LET r == ParseValue(s, 1)
    IN IF r.ok /\ SkipWs(s, r.pos) = Len(s) + 1 THEN r ELSE ParseFail

----------------------------------------------------------------------------
(* encoding/json: decoding into []GitCommitFormat.  A type mismatch is     *)
(* recorded and decoding goes on (UnmarshalTypeError); null leaves the     *)
(* target untouched; an unknown key is skipped; a repeated key overwrites. *)
(* Keys are compared exactly: the modelled outputs spell them in lower     *)
(* case, where the case-insensitive match of encoding/json agrees.         *)

\* the JSON keys of GitCommitFormat and Commiter
KeyCommit == <<"c", "o", "m", "m", "i", "t">>
KeyCommiter == <<"c", "o", "m", "m", "i", "t", "e", "r">>
KeyName == <<"n", "a", "m", "e">>
KeyEmail == <<"e", "m", "a", "i", "l">>
KeyDate == <<"d", "a", "t", "e">>
KeySubject == <<"s", "u", "b", "j", "e", "c", "t">>
KeyBody == <<"b", "o", "d", "y">>

ZeroCommiter == [Name |-> <<>>, Email |-> <<>>, Date |-> <<>>]

ZeroCommitFormat == [Commit |-> <<>>, Commiter |-> ZeroCommiter, Subject |-> <<>>, Body |-> <<>>]

IsNull(v) == v.t = "lit" /\ v.s = <<"n", "u", "l", "l">>

\* a string field: [val, bad]
DecodeString(cur, v) ==
    IF v.t = "str" THEN [val |-> v.s, bad |-> FALSE]
    ELSE IF IsNull(v) THEN [val |-> cur, bad |-> FALSE]
    ELSE [val |-> cur, bad |-> TRUE]

RECURSIVE DecodeCommiterMembers(_, _, _)
DecodeCommiterMembers(ms, i, acc) ==
    IF i > Len(ms) THEN acc
    ELSE LET m == ms[i]
             cur == acc.val
             next ==
                 IF m.k = KeyName
                 THEN LET d == DecodeString(cur.Name, m.v)
                      IN [val |-> [cur EXCEPT !.Name = d.val], bad |-> acc.bad \/ d.bad]
                 ELSE IF m.k = KeyEmail
                 THEN LET d == DecodeString(cur.Email, m.v)
                      IN [val |-> [cur EXCEPT !.Email = d.val], bad |-> acc.bad \/ d.bad]
                 ELSE IF m.k = KeyDate
                 THEN LET d == DecodeString(cur.Date, m.v)
                      IN [val |-> [cur EXCEPT !.Date = d.val], bad |-> acc.bad \/ d.bad]
                 ELSE acc
         IN DecodeCommiterMembers(ms, i + 1, next)

DecodeCommiter(cur, v) ==
    IF v.t = "obj" THEN DecodeCommiterMembers(v.items, 1, [val |-> cur, bad |-> FALSE])
    ELSE IF IsNull(v) THEN [val |-> cur, bad |-> FALSE]
    ELSE [val |-> cur, bad |-> TRUE]

RECURSIVE DecodeFormatMembers(_, _, _)
DecodeFormatMembers(ms, i, acc) ==
    IF i > Len(ms) THEN acc
    ELSE LET m == ms[i]
             cur == acc.val
             next ==
                 IF m.k = KeyCommit
                 THEN LET d == DecodeString(cur.Commit, m.v)
                      IN [val |-> [cur EXCEPT !.Commit = d.val], bad |-> acc.bad \/ d.bad]
                 ELSE IF m.k = KeyCommiter
                 THEN LET d == DecodeCommiter(cur.Commiter, m.v)
                      IN [val |-> [cur EXCEPT !.Commiter = d.val], bad |-> acc.bad \/ d.bad]
                 ELSE IF m.k = KeySubject
                 THEN LET d == DecodeString(cur.Subject, m.v)
                      IN [val |-> [cur EXCEPT !.Subject = d.val], bad |-> acc.bad \/ d.bad]
                 ELSE IF m.k = KeyBody
                 THEN LET d == DecodeString(cur.Body, m.v)
                      IN [val |-> [cur EXCEPT !.Body = d.val], bad |-> acc.bad \/ d.bad]
                 ELSE acc
         IN DecodeFormatMembers(ms, i + 1, next)

DecodeCommitFormat(v) ==
    IF v.t = "obj" THEN DecodeFormatMembers(v.items, 1, [val |-> ZeroCommitFormat, bad |-> FALSE])
    ELSE IF IsNull(v) THEN [val |-> ZeroCommitFormat, bad |-> FALSE]
    ELSE [val |-> ZeroCommitFormat, bad |-> TRUE]

RECURSIVE DecodeList(_, _, _)
DecodeList(items, i, acc) ==
    IF i > Len(items) THEN acc
    ELSE LET d == DecodeCommitFormat(items[i])
         IN DecodeList(items, i + 1,
                       [val |-> Append(acc.val, d.val), bad |-> acc.bad \/ d.bad])

\* json.Unmarshal(data, &gitCommitFormattedList): [list, err]
Unmarshal(data) ==
    Bind(ParseDocument(data), LAMBDA doc :
        IF ~doc.ok THEN [list |-> <<>>, err |-> "SyntaxError"]
        ELSE IF IsNull(doc.val) THEN [list |-> <<>>, err |-> "nil"]
        ELSE IF doc.val.t # "arr" THEN [list |-> <<>>, err |-> "UnmarshalTypeError"]
        ELSE Bind(DecodeList(doc.val.items, 1, [val |-> <<>>, bad |-> FALSE]), LAMBDA d :
                 [list |-> d.val, err |-> IF d.bad THEN "UnmarshalTypeError" ELSE "nil"]))

----------------------------------------------------------------------------
(* processGitLogOutput *)

GitCommitBase(formattedCommit, rootDir) ==
    [Commit |-> formattedCommit.Commit,
     Author |-> formattedCommit.Commiter.Name \o <<" ", "<">> \o formattedCommit.Commiter.Email \o <<">">>,
     Date |-> formattedCommit.Commiter.Date,
     Message |-> formattedCommit.Subject \o <<NL>> \o formattedCommit.Body,
     CheckoutPath |-> rootDir]

\* mutant: the commits are collected newest-last (prepended)
RECURSIVE BuildCommits_Reversed(_, _, _, _)
BuildCommits_Reversed(list, i, rootDir, gitCommits) ==
    IF i > Len(list) THEN gitCommits
    ELSE BuildCommits_Reversed(list, i + 1, rootDir,
                               <<GitCommitBase(list[i], rootDir)>> \o gitCommits)

RECURSIVE BuildCommits(_, _, _, _)
BuildCommits(list, i, rootDir, gitCommits) ==
    IF i > Len(list) THEN gitCommits
    ELSE BuildCommits(list, i + 1, rootDir, Append(gitCommits, GitCommitBase(list[i], rootDir)))

\* mutant: the error of json.Unmarshal is returned with what was decoded so far
processGitLogOutput_Partial(out, rootDir) ==
    IF Len(out) = 0 THEN [commits |-> <<>>, isNil |-> FALSE, err |-> "nil"]
    ELSE LET logOut == <<"[">> \o SubSeq(out, 1, Len(out) - 1) \o <<"]">>
         IN Bind(Unmarshal(logOut), LAMBDA u :
                [commits |-> BuildCommits(u.list, 1, rootDir, <<>>), isNil |-> FALSE,
                 err |-> u.err])

\* mutant: no special case for empty output, which json.Unmarshal rejects
processGitLogOutput_EmptyIsError(out, rootDir) ==
    IF Len(out) = 0 THEN [commits |-> <<>>, isNil |-> TRUE, err |-> Unmarshal(out).err]
    ELSE LET logOut == <<"[">> \o SubSeq(out, 1, Len(out) - 1) \o <<"]">>
         IN Bind(Unmarshal(logOut), LAMBDA u :
                IF u.err # "nil" THEN [commits |-> <<>>, isNil |-> TRUE, err |-> u.err]
                ELSE [commits |-> BuildCommits(u.list, 1, rootDir, <<>>), isNil |-> FALSE,
                      err |-> "nil"])

\* returns [commits, isNil, err]; isNil tells the nil slice from make([]GitCommit, 0)
processGitLogOutput(out, rootDir) ==
    IF Len(out) = 0 THEN [commits |-> <<>>, isNil |-> FALSE, err |-> "nil"]
    ELSE LET logOut == <<"[">> \o SubSeq(out, 1, Len(out) - 1) \o <<"]">>
         IN Bind(Unmarshal(logOut), LAMBDA u :
                IF u.err # "nil" THEN [commits |-> <<>>, isNil |-> TRUE, err |-> u.err]
                ELSE [commits |-> BuildCommits(u.list, 1, rootDir, <<>>), isNil |-> FALSE,
                      err |-> "nil"])

----------------------------------------------------------------------------
(* Commands.  A call is [name, args]; runCommand's answer is [out, err].   *)

ArgC == <<"-", "C">>
ArgInit == <<"i", "n", "i", "t">>
ArgRemote == <<"r", "e", "m", "o", "t", "e">>
ArgAdd == <<"a", "d", "d">>
ArgOrigin == <<"o", "r", "i", "g", "i", "n">>
ArgLog == <<"l", "o", "g">>
ArgShow == <<"s", "h", "o", "w">>
ArgN == <<"-", "n">>
ArgDate == <<"-", "-", "d", "a", "t", "e", "=", "i", "s", "o", "-", "s", "t", "r", "i", "c", "t">>
ArgS == <<"-", "s">>
\* the --pretty=format:... argument, kept as one opaque token
GITFORMAT == <<"GITFORMAT">>

GitCall(args) == [name |-> "git", args |-> args]

GitInit(run, rootDir) ==
    [call |-> GitCall(<<ArgC, rootDir, ArgInit>>), err |-> run.err]

GitCreateRemote(run, rootDir, url) ==
    [call |-> GitCall(<<ArgC, rootDir, ArgRemote, ArgAdd, ArgOrigin, url>>), err |-> run.err]

\* mutant: the error of git init is dropped and the remote is registered anyway
InitRepo_IgnoreInitErr(mkdirErr, runs, rootDir, remoteUrl, isBare) ==
    LET mk == [name |-> "MkdirAll", args |-> <<rootDir>>]
    IN IF mkdirErr # "nil" THEN [calls |-> <<mk>>, err |-> mkdirErr]
       ELSE LET gi == GitInit(runs[1], rootDir)
                cr == GitCreateRemote(runs[2], rootDir, remoteUrl)
            IN [calls |-> <<mk, gi.call, cr.call>>, err |-> cr.err]

\* Init: [calls, err]
InitRepo(mkdirErr, runs, rootDir, remoteUrl, isBare) ==
    LET mk == [name |-> "MkdirAll", args |-> <<rootDir>>]
    IN IF mkdirErr # "nil" THEN [calls |-> <<mk>>, err |-> mkdirErr]
       ELSE LET gi == GitInit(runs[1], rootDir)
            IN IF gi.err # "nil" THEN [calls |-> <<mk, gi.call>>, err |-> gi.err]
               ELSE LET cr == GitCreateRemote(runs[2], rootDir, remoteUrl)
                    IN [calls |-> <<mk, gi.call, cr.call>>, err |-> cr.err]

\* openGitRepo: [calls, err]
openGitRepo(absErr, statErr, path) ==
    LET abs == [name |-> "Abs", args |-> <<path>>]
        st == [name |-> "Stat", args |-> <<path, <<".", "g", "i", "t">> >>]
    IN IF absErr # "nil" THEN [calls |-> <<abs>>, err |-> absErr]
       ELSE IF ~(statErr = "NotExist") THEN [calls |-> <<abs, st>>, err |-> statErr]
       ELSE [calls |-> <<abs, st>>, err |-> "nil"]

\* OpenRepoPlain: [calls, isNil, rootDir, err]
OpenRepoPlain(absErr, statErr, checkoutPath) ==
    LET o == openGitRepo(absErr, statErr, checkoutPath)
    IN IF o.err # "nil"
       THEN [calls |-> o.calls, isNil |-> TRUE, rootDir |-> <<>>, err |-> o.err]
       ELSE [calls |-> o.calls, isNil |-> FALSE, rootDir |-> checkoutPath, err |-> "nil"]

RangeSep == <<"^", ".", ".">>

\* mutant: the from-only test comes first and shadows the from-and-to case
getCommandForLogRange_FromFirst(branchRef, from, to, rangeCmdArgs, baseCmdArgs, extraCmdArgs) ==
    LET range == IF from # <<>> THEN <<from \o RangeSep \o branchRef>>
                 ELSE IF from # <<>> /\ to # <<>> THEN <<from \o RangeSep \o to>>
                 ELSE IF to # <<>> THEN <<to>>
                 ELSE rangeCmdArgs
    IN baseCmdArgs \o (range \o extraCmdArgs)

getCommandForLogRange(branchRef, from, to, rangeCmdArgs, baseCmdArgs, extraCmdArgs) ==
    LET range == IF from # <<>> /\ to # <<>> THEN <<from \o RangeSep \o to>>
                 ELSE IF from # <<>> THEN <<from \o RangeSep \o branchRef>>
                 ELSE IF to # <<>> THEN <<to>>
                 ELSE rangeCmdArgs
    IN baseCmdArgs \o (range \o extraCmdArgs)

\* mutant: a failed command is run a second time before giving up
GetCommits_Retry(run, branchRef, branch, rootDir, numCommits, from, to) ==
    LET baseCmdArgs == <<ArgC, rootDir, ArgLog>>
        rangeCmdArgs == <<branchRef>>
        extraCmdArgs == <<ArgN, Itoa(numCommits), ArgDate, GITFORMAT>>
        cmdArgs == getCommandForLogRange(branchRef, from, to, rangeCmdArgs, baseCmdArgs, extraCmdArgs)
        cs == <<GitCall(cmdArgs)>>
    IN IF run.err # "nil"
       THEN [calls |-> cs \o cs, commits |-> <<>>, isNil |-> TRUE, err |-> run.err]
       ELSE Bind(processGitLogOutput(run.out, rootDir), LAMBDA p :
                IF p.err # "nil" THEN [calls |-> cs, commits |-> <<>>, isNil |-> TRUE, err |-> p.err]
                ELSE [calls |-> cs, commits |-> p.commits, isNil |-> p.isNil, err |-> "nil"])

\* GetCommits: [calls, commits, isNil, err]
GetCommits(run, branchRef, branch, rootDir, numCommits, from, to) ==
    LET baseCmdArgs == <<ArgC, rootDir, ArgLog>>
        rangeCmdArgs == <<branchRef>>
        extraCmdArgs == <<ArgN, Itoa(numCommits), ArgDate, GITFORMAT>>
        cmdArgs == getCommandForLogRange(branchRef, from, to, rangeCmdArgs, baseCmdArgs, extraCmdArgs)
        cs == <<GitCall(cmdArgs)>>
    IN IF run.err # "nil" THEN [calls |-> cs, commits |-> <<>>, isNil |-> TRUE, err |-> run.err]
       ELSE Bind(processGitLogOutput(run.out, rootDir), LAMBDA p :
                IF p.err # "nil" THEN [calls |-> cs, commits |-> <<>>, isNil |-> TRUE, err |-> p.err]
                ELSE [calls |-> cs, commits |-> p.commits, isNil |-> p.isNil, err |-> "nil"])

\* GetCommitIterator: [calls, commits, isNil, err]; isNil tells a nil iterator
GetCommitIterator(run, rootDir, iteratorRequest) ==
    Bind(GetCommits(run, iteratorRequest.BranchRef, iteratorRequest.Branch, rootDir,
                    iteratorRequest.CommitCount, iteratorRequest.FromCommitHash,
                    iteratorRequest.ToCommitHash), LAMBDA g :
        IF g.err # "nil" THEN [calls |-> g.calls, commits |-> <<>>, isNil |-> TRUE, err |-> g.err]
        ELSE [calls |-> g.calls, commits |-> g.commits, isNil |-> FALSE, err |-> "nil"])

\* GitShow: [calls, commits, isNil, err]; commits holds the one commit returned.
\* The error of runCommand is overwritten by the one of processGitLogOutput.
GitShow(run, rootDir, hash) ==
    LET cs == <<GitCall(<<ArgC, rootDir, ArgShow, hash, ArgDate, GITFORMAT, ArgS>>)>>
    IN Bind(processGitLogOutput(run.out, rootDir), LAMBDA p :
           IF p.err # "nil" \/ Len(p.commits) = 0
           THEN [calls |-> cs, commits |-> <<>>, isNil |-> TRUE, err |-> p.err]
           ELSE [calls |-> cs, commits |-> <<p.commits[1]>>, isNil |-> FALSE, err |-> "nil"])

GetCommitsForTag(run, checkoutPath, tag) == GitShow(run, checkoutPath, tag)

GetCommitForHash(run, checkoutPath, commitHash) == GitShow(run, checkoutPath, commitHash)

----------------------------------------------------------------------------
(* Diff-stat decoding: one line per file, "<additions>\t<deletions>\t<path>", *)
(* "-" in place of a count for a binary file.                              *)

RECURSIVE SplitOn(_, _, _, _)
SplitOn(s, sep, i, cur) ==
    IF i > Len(s) THEN <<cur>>
    ELSE IF s[i] = sep THEN <<cur>> \o SplitOn(s, sep, i + 1, <<>>)
    ELSE SplitOn(s, sep, i + 1, Append(cur, s[i]))

IsNumber(cs) == Len(cs) > 0 /\ \A i \in 1..Len(cs) : cs[i] \in Digits

RECURSIVE Atoi(_)
Atoi(cs) == IF Len(cs) = 0 THEN 0
            ELSE 10 * Atoi(SubSeq(cs, 1, Len(cs) - 1)) + DigitVal(cs[Len(cs)])

RECURSIVE DecodeStatLines(_, _, _)
DecodeStatLines(lines, i, acc) ==
    IF i > Len(lines) THEN acc
    ELSE IF Len(lines[i]) = 0 THEN DecodeStatLines(lines, i + 1, acc)
    ELSE LET f == SplitOn(lines[i], TAB, 1, <<>>)
         IN IF Len(f) # 3 THEN [stats |-> <<>>, bad |-> TRUE]
            ELSE IF f[1] = <<"-">> /\ f[2] = <<"-">>
            THEN DecodeStatLines(lines, i + 1,
                     [stats |-> Append(acc.stats, [path |-> f[3], binary |-> TRUE,
                                                   additions |-> 0, deletions |-> 0]),
                      bad |-> acc.bad])
            ELSE IF IsNumber(f[1]) /\ IsNumber(f[2])
            THEN DecodeStatLines(lines, i + 1,
                     [stats |-> Append(acc.stats, [path |-> f[3], binary |-> FALSE,
                                                   additions |-> Atoi(f[1]), deletions |-> Atoi(f[2])]),
                      bad |-> acc.bad])
            ELSE [stats |-> <<>>, bad |-> TRUE]

\* getFileStat: [stats, isNil, err]
getFileStat(fileStat) ==
    Bind(DecodeStatLines(SplitOn(fileStat, NL, 1, <<>>), 1, [stats |-> <<>>, bad |-> FALSE]),
         LAMBDA d : IF d.bad THEN [stats |-> <<>>, isNil |-> TRUE, err |-> "DecodeError"]
                    ELSE [stats |-> d.stats, isNil |-> FALSE, err |-> "nil"])

\* GetCommitStats: [calls, stats, isNil, err]; diff is the answer [fileStat, err]
\* of FetchDiffStatBetweenCommits, which runs the diff-stat command
GetCommitStats(diff, commit) ==
    LET cs == << [name |-> "FetchDiffStatBetweenCommits",
                  args |-> <<commit.Commit, <<>>, commit.CheckoutPath>>] >>
    IN IF diff.err # "nil" THEN [calls |-> cs, stats |-> <<>>, isNil |-> TRUE, err |-> diff.err]
       ELSE Bind(getFileStat(diff.fileStat), LAMBDA g :
                [calls |-> cs, stats |-> g.stats, isNil |-> g.isNil, err |-> g.err])

----------------------------------------------------------------------------
(* Inputs *)

Dirs == { <<"/", "r">>, <<"/", "w">> }
Urls == { <<"u", "1">>, <<"u", "2">> }
BranchRefs == { <<>>, <<"m", "a", "i", "n">>, <<"d", "e", "v">> }
Hashes == { <<>>, <<"A">>, <<"B">> }
Tags == { <<"A">>, <<"v", "1">> }
CommitCounts == { 1, MaxNumCommits }

\* errors of the collaborators; "nil" is success
RunErrs == { "nil", "ExitError", "Cancelled" }
MkdirErrs == { "nil", "PathError" }
AbsErrs == { "nil", "GetwdError" }
StatErrs == { "nil", "NotExist", "PermissionDenied" }

\* what git prints for one commit under GITFORMAT: the fragment and its trailing ","
JStr(x) == <<QUOTE>> \o x \o <<QUOTE>>

Fragment(f) ==
    Concat(<< <<"{">>, JStr(KeyCommit), <<":">>, JStr(f.commit), <<",">>,
              JStr(KeyCommiter), <<":", "{">>,
                  JStr(KeyName), <<":">>, JStr(f.name), <<",">>,
                  JStr(KeyEmail), <<":">>, JStr(f.email), <<",">>,
                  JStr(KeyDate), <<":">>, JStr(f.date), <<"}", ",">>,
              JStr(KeySubject), <<":">>, JStr(f.subject), <<",">>,
              JStr(KeyBody), <<":">>, JStr(f.body), <<"}", ",">> >>)

\* git separates the entries of a format: log by a newline
RECURSIVE Render(_)
Render(fs) == IF Len(fs) = 0 THEN <<>>
              ELSE IF Len(fs) = 1 THEN Fragment(fs[1])
              ELSE Fragment(fs[1]) \o <<NL>> \o Render(Tail(fs))

CommitA == [commit |-> <<"a", "1">>, name |-> <<"N">>, email |-> <<"e", "@", "x">>,
            date |-> <<"2", "0", "T", "+", "1">>, subject |-> <<"S">>, body |-> <<"B">>]
CommitB == [commit |-> <<"b", "2">>, name |-> <<"M", " ", "K">>, email |-> <<"m", "@", "y">>,
            date |-> <<"2", "1", "T", "Z">>, subject |-> <<"f", "i", "x">>, body |-> <<>>]
CommitC == [commit |-> <<"c", "3">>, name |-> <<"N">>, email |-> <<>>,
            date |-> <<"2", "2">>, subject |-> <<"[", "x", "]", ",", "{">>, body |-> <<"o", "k">>]
\* a subject with an unescaped quote
CommitQ == [CommitA EXCEPT !.subject = <<"s", "a", "y", " ", QUOTE, "h", "i", QUOTE>>]

CommitFields == { CommitA, CommitB, CommitC }

FragSeqs == UNION { [1..n -> CommitFields] : n \in 0..MaxFrags }

\* the text cut short, as a killed process leaves it
Truncations(text) == { SubSeq(text, 1, k) : k \in 1..(Len(text) - 1) }

Null == <<"n", "u", "l", "l">>

Damaged ==
    Truncations(Fragment(CommitA) \o <<NL, "{">>)
    \cup { <<"x">>, <<",">>, <<"}">>, <<"1", ",">>, <<"1", "2">>, Null \o <<",">>,
           <<"[", "]", ",">>, <<"{", "}", "}">>, <<"{", "}", NL>>,
           Fragment(CommitQ),
           Fragment(CommitA) \o <<NL>>,
           SubSeq(Fragment(CommitA), 1, Len(Fragment(CommitA)) - 1) \o <<" ">>,
           SubSeq(Fragment(CommitA), 1, Len(Fragment(CommitA)) - 1) \o <<"}">>,
           <<"{">> \o JStr(KeyCommit) \o <<":", "7", "}", ",">>,
           <<"{">> \o JStr(KeyCommiter) \o <<":">> \o JStr(<<"N">>) \o <<"}", ",">>,
           <<"{">> \o JStr(KeyCommit) \o <<":">> \o JStr(<<"a">>) \o <<",">>,
           <<"{">> \o JStr(KeyCommit) \o <<":">> \o JStr(<<"a">>) \o <<"}", "]", ",">> }

\* answers of the log/show command: the text, and the commits it was rendered from
LogAnswers ==
    { [out |-> Render(fs), frags |-> fs, wellFormed |-> TRUE] : fs \in FragSeqs }
    \cup { [out |-> o, frags |-> <<>>, wellFormed |-> FALSE] : o \in Damaged }

\* the requests of a log query
LogRequests ==
    [rootDir : Dirs, branchRef : BranchRefs, numCommits : CommitCounts,
     from : Hashes, to : Hashes]

PlainRequests == { r \in LogRequests : r.numCommits = 1 /\ r.from = <<>> /\ r.to = <<>> }

PlainAnswers == { a \in LogAnswers : Len(a.frags) <= 1 /\ Len(a.out) <= 1 }

\* the explored pairs of a request and the command's answer to it: every request
\* with a plain answer, and every answer to a plain request
LogCases == (LogRequests \X PlainAnswers) \cup (PlainRequests \X LogAnswers)

StatTexts == { <<>>, <<"3", TAB, "1", TAB, "a">>, <<"-", TAB, "-", TAB, "b">>,
               <<"1", "2", TAB, "0", TAB, "a", NL, "-", TAB, "-", TAB, "b", NL>>,
               <<"x">>, <<"3", TAB, "a">> }

----------------------------------------------------------------------------
(* State.  req is the call in progress ("none": the caller is idle), env   *)
(* the answers the collaborators gave during it, calls the external calls  *)
(* the method made, in order, and ret what it returned.                    *)

NoReq == [op |-> "none", rootDir |-> <<>>, remoteUrl |-> <<>>, isBare |-> FALSE,
          branchRef |-> <<>>, branch |-> <<>>, numCommits |-> 0, from |-> <<>>,
          to |-> <<>>, hash |-> <<>>]

NoEnv == [mkdirErr |-> "nil", absErr |-> "nil", statErr |-> "nil", runErrs |-> <<>>,
          out |-> <<>>, frags |-> <<>>, wellFormed |-> FALSE]

NoRet == [err |-> "nil", isNil |-> TRUE, commits |-> <<>>, rootDir |-> <<>>, stats |-> <<>>]

Init == req = NoReq /\ env = NoEnv /\ calls = <<>> /\ ret = NoRet

Idle == req.op = "none"

InitCall ==
    /\ Idle
    /\ \E rootDir \in Dirs, remoteUrl \in Urls, isBare \in BOOLEAN,
          mkdirErr \in MkdirErrs, e1 \in RunErrs, e2 \in RunErrs :
          \E r \in { InitRepo(mkdirErr, << [out |-> <<>>, err |-> e1], [out |-> <<>>, err |-> e2] >>,
                               rootDir, remoteUrl, isBare) } :
             /\ req' = [NoReq EXCEPT !.op = "Init", !.rootDir = rootDir,
                                     !.remoteUrl = remoteUrl, !.isBare = isBare]
             /\ env' = [NoEnv EXCEPT !.mkdirErr = mkdirErr, !.runErrs = <<e1, e2>>]
             /\ calls' = r.calls
             /\ ret' = [NoRet EXCEPT !.err = r.err]

OpenRepoPlainCall ==
    /\ Idle
    /\ \E checkoutPath \in Dirs, absErr \in AbsErrs, statErr \in StatErrs :
          \E r \in { OpenRepoPlain(absErr, statErr, checkoutPath) } :
             /\ req' = [NoReq EXCEPT !.op = "OpenRepoPlain", !.rootDir = checkoutPath]
             /\ env' = [NoEnv EXCEPT !.absErr = absErr, !.statErr = statErr]
             /\ calls' = r.calls
             /\ ret' = [NoRet EXCEPT !.err = r.err, !.isNil = r.isNil, !.rootDir = r.rootDir]

LogReq(op, rootDir, branchRef, numCommits, from, to) ==
    [NoReq EXCEPT !.op = op, !.rootDir = rootDir, !.branchRef = branchRef,
                  !.branch = branchRef, !.numCommits = numCommits, !.from = from, !.to = to]

LogEnv(a, e) ==
    [NoEnv EXCEPT !.runErrs = <<e>>, !.out = a.out, !.frags = a.frags,
                  !.wellFormed = a.wellFormed]

GetCommitsCall ==
    /\ Idle
    /\ \E c \in LogCases, e \in RunErrs :
          \E q \in {c[1]}, a \in {c[2]} :
          \E r \in { GetCommits([out |-> a.out, err |-> e], q.branchRef, q.branchRef, q.rootDir,
                                 q.numCommits, q.from, q.to) } :
             /\ req' = LogReq("GetCommits", q.rootDir, q.branchRef, q.numCommits, q.from, q.to)
             /\ env' = LogEnv(a, e)
             /\ calls' = r.calls
             /\ ret' = [NoRet EXCEPT !.err = r.err, !.isNil = r.isNil, !.commits = r.commits]

GetCommitIteratorCall ==
    /\ Idle
    /\ \E c \in LogCases, e \in RunErrs :
          \E q \in {c[1]}, a \in {c[2]} :
          \E r \in { GetCommitIterator([out |-> a.out, err |-> e], q.rootDir,
                          [BranchRef |-> q.branchRef, Branch |-> q.branchRef,
                           CommitCount |-> q.numCommits, FromCommitHash |-> q.from,
                           ToCommitHash |-> q.to]) } :
             /\ req' = LogReq("GetCommitIterator", q.rootDir, q.branchRef, q.numCommits,
                                 q.from, q.to)
             /\ env' = LogEnv(a, e)
             /\ calls' = r.calls
             /\ ret' = [NoRet EXCEPT !.err = r.err, !.isNil = r.isNil, !.commits = r.commits]

GetCommitsForTagCall ==
    /\ Idle
    /\ \E checkoutPath \in Dirs, tag \in Tags, a \in LogAnswers, e \in RunErrs :
          \E r \in { GetCommitsForTag([out |-> a.out, err |-> e], checkoutPath, tag) } :
             /\ req' = [NoReq EXCEPT !.op = "GetCommitsForTag", !.rootDir = checkoutPath,
                                     !.hash = tag]
             /\ env' = LogEnv(a, e)
             /\ calls' = r.calls
             /\ ret' = [NoRet EXCEPT !.err = r.err, !.isNil = r.isNil, !.commits = r.commits]

GetCommitForHashCall ==
    /\ Idle
    /\ \E checkoutPath \in Dirs, commitHash \in Tags, a \in LogAnswers, e \in RunErrs :
          \E r \in { GetCommitForHash([out |-> a.out, err |-> e], checkoutPath, commitHash) } :
             /\ req' = [NoReq EXCEPT !.op = "GetCommitForHash", !.rootDir = checkoutPath,
                                     !.hash = commitHash]
             /\ env' = LogEnv(a, e)
             /\ calls' = r.calls
             /\ ret' = [NoRet EXCEPT !.err = r.err, !.isNil = r.isNil, !.commits = r.commits]

GetCommitStatsCall ==
    /\ Idle
    /\ \E checkoutPath \in Dirs, hash \in Tags, fileStat \in StatTexts, e \in RunErrs :
          \E r \in { GetCommitStats([fileStat |-> fileStat, err |-> e],
                                     [Commit |-> hash, CheckoutPath |-> checkoutPath]) } :
             /\ req' = [NoReq EXCEPT !.op = "GetCommitStats", !.rootDir = checkoutPath,
                                     !.hash = hash]
             /\ env' = [NoEnv EXCEPT !.runErrs = <<e>>, !.out = fileStat]
             /\ calls' = r.calls
             /\ ret' = [NoRet EXCEPT !.err = r.err, !.isNil = r.isNil, !.stats = r.stats]

\* the caller takes the result; the manager keeps no state between calls
Return ==
    /\ ~Idle
    /\ req' = NoReq /\ env' = NoEnv /\ calls' = <<>> /\ ret' = NoRet

Next ==
    \/ InitCall
    \/ OpenRepoPlainCall
    \/ GetCommitsCall
    \/ GetCommitIteratorCall
    \/ GetCommitsForTagCall
    \/ GetCommitForHashCall
    \/ GetCommitStatsCall
    \/ Return

Spec == Init /\ [][Next]_vars

----------------------------------------------------------------------------
(* Properties *)

LogOps == {"GetCommits", "GetCommitIterator"}
ShowOps == {"GetCommitsForTag", "GetCommitForHash"}
DecodeErrs == {"SyntaxError", "UnmarshalTypeError"}

\* the answer runCommand gave to the first (or only) command of the call
RunErr == env.runErrs[1]

Main == <<"m", "a", "i", "n">>

\* the precedence table of the range argument, one row per case
ExpectedRange(branchRef, from, to) ==
    CASE from # <<>> /\ to # <<>> -> from \o <<"^", ".", ".">> \o to
      [] from # <<>> /\ to = <<>> -> from \o <<"^", ".", ".">> \o branchRef
      [] from = <<>> /\ to # <<>> -> to
      [] from = <<>> /\ to = <<>> -> branchRef

\* C1: a log query issues the command -C rootDir log <range> -n <count>
\* --date=iso-strict GITFORMAT, whose single range argument follows the precedence
\* table: from^..to, from^..branchRef, to, branchRef; from "A", no to, branch
\* "main" gives "A^..main".
C1_RangePrecedence ==
    req.op \in LogOps =>
        /\ Len(calls) = 1
        /\ calls[1].name = "git"
        /\ calls[1].args = << ArgC, req.rootDir, ArgLog,
                              ExpectedRange(req.branchRef, req.from, req.to),
                              ArgN, Itoa(req.numCommits), ArgDate, GITFORMAT >>
        /\ (req.from = <<"A">> /\ req.to = <<>> /\ req.branchRef = Main
               => calls[1].args[4] = <<"A", "^", ".", ".", "m", "a", "i", "n">>)

C1_Witness ==
    /\ req.op = "GetCommitIterator"
    /\ req.from = <<"A">> /\ req.to = <<>> /\ req.branchRef = Main
    /\ calls[1].args[4] = <<"A", "^", ".", ".", "m", "a", "i", "n">>

\* C2: GetCommitsForTag and GetCommitForHash never return a nil commit together
\* with a nil error; zero decoded commits give an error.
C2_NotFoundOnZeroCommits ==
    req.op \in ShowOps => ~(ret.isNil /\ ret.err = "nil")

\* C3: OpenRepoPlain fails and returns no handle when the .git stat reports
\* not-found, and returns a handle (with rootDir = checkoutPath) only when the
\* metadata is present.
C3_OpenFailsWithoutMetadata ==
    req.op = "OpenRepoPlain" =>
        /\ (env.absErr = "nil" /\ env.statErr = "NotExist" => ret.err # "nil" /\ ret.isNil)
        /\ (~ret.isNil => ret.rootDir = req.rootDir /\ env.statErr = "nil")

IsRunnerCall(c) == c.name \in {"git", "FetchDiffStatBetweenCommits"}

NumRuns == Cardinality({ i \in 1..Len(calls) : IsRunnerCall(calls[i]) })

\* some command the call ran ended with an error
RunnerFailed == \E i \in 1..Len(env.runErrs) : i <= NumRuns /\ env.runErrs[i] # "nil"

\* C4: a call whose command failed (or was cancelled) returns an error and
\* nothing decoded from that run's output.
C4_RunnerErrorPropagates ==
    (req.op # "none" /\ RunnerFailed) =>
        ret.err # "nil" /\ ret.isNil /\ ret.commits = <<>> /\ ret.stats = <<>>

\* C5: decoding is all-or-nothing: processGitLogOutput, GetCommits and
\* GetCommitIterator return no commits (no iterator) whenever they return an error.
C5_AllOrNothing ==
    /\ req.op \in LogOps => (ret.err # "nil" => ret.isNil /\ ret.commits = <<>>)
    /\ req.op \in LogOps \cup ShowOps =>
           \A p \in { processGitLogOutput(env.out, req.rootDir) } :
               p.err # "nil" => p.isNil /\ p.commits = <<>>

C5_Witness ==
    /\ req.op = "GetCommitIterator"
    /\ RunErr = "nil"
    /\ ret.err = "UnmarshalTypeError"
    /\ ret.isNil /\ ret.commits = <<>>

\* brackets and braces outside string literals pair up, and no literal is left open
RECURSIVE BalancedFrom(_, _, _, _)
BalancedFrom(s, i, stack, inStr) ==
    IF i > Len(s) THEN ~inStr /\ Len(stack) = 0
    ELSE IF inStr
         THEN IF s[i] = BSL THEN BalancedFrom(s, i + 2, stack, TRUE)
              ELSE BalancedFrom(s, i + 1, stack, s[i] # QUOTE)
    ELSE IF s[i] = QUOTE THEN BalancedFrom(s, i + 1, stack, TRUE)
    ELSE IF s[i] = "[" THEN BalancedFrom(s, i + 1, Append(stack, "]"), FALSE)
    ELSE IF s[i] = "{" THEN BalancedFrom(s, i + 1, Append(stack, "}"), FALSE)
    ELSE IF s[i] \in {"]", "}"}
         THEN /\ Len(stack) > 0
              /\ stack[Len(stack)] = s[i]
              /\ BalancedFrom(s, i + 1, SubSeq(stack, 1, Len(stack) - 1), FALSE)
    ELSE BalancedFrom(s, i + 1, stack, FALSE)

Wrapped(out) == <<"[">> \o SubSeq(out, 1, Len(out) - 1) \o <<"]">>

Malformed(out) ==
    /\ Len(out) > 0
    /\ (out[Len(out)] # "," \/ ~BalancedFrom(Wrapped(out), 1, <<>>, FALSE))

\* C6: every non-empty output that lacks the trailing separator, or is unbalanced
\* once stripped and wrapped, fails to decode and yields no commits.
C6_MalformedFails ==
    (req.op \in LogOps /\ RunErr = "nil" /\ Malformed(env.out)) =>
        ret.err \in DecodeErrs /\ ret.commits = <<>>

ExpectedCommit(f, rootDir) ==
    [Commit |-> f.commit,
     Author |-> f.name \o <<" ", "<">> \o f.email \o <<">">>,
     Date |-> f.date,
     Message |-> f.subject \o <<NL>> \o f.body,
     CheckoutPath |-> rootDir]

\* C7: N well-formed fragments decode to N commits in input order, commit i
\* built from fragment i: hash, "name <email>", "subject\nbody", the date
\* verbatim, and the rootDir argument as checkoutPath.
C7_DecodeInOrder ==
    (req.op \in LogOps /\ RunErr = "nil" /\ env.wellFormed) =>
        /\ ret.err = "nil"
        /\ Len(ret.commits) = Len(env.frags)
        /\ \A i \in 1..Len(env.frags) :
               ret.commits[i] = ExpectedCommit(env.frags[i], req.rootDir)

C7_Witness ==
    /\ req.op = "GetCommits"
    /\ RunErr = "nil"
    /\ env.frags = <<CommitB, CommitA>>
    /\ Len(ret.commits) = 2
    /\ ret.commits[1].Commit = <<"b", "2">>
    /\ ret.commits[2].Author = <<"N", " ", "<", "e", "@", "x", ">">>

\* C8: empty output decodes to an empty sequence without error, so the
\* iterator of a query without matches exists and holds no commit; an
\* iterator is returned exactly when no error is.
C8_EmptyIsSuccess ==
    req.op = "GetCommitIterator" =>
        /\ (RunErr = "nil" /\ env.out = <<>> =>
                ret.err = "nil" /\ ~ret.isNil /\ ret.commits = <<>>)
        /\ (ret.isNil <=> ret.err # "nil")

C8_Witness ==
    /\ req.op = "GetCommitIterator"
    /\ RunErr = "nil" /\ env.out = <<>>
    /\ ret.err = "nil" /\ ~ret.isNil /\ ret.commits = <<>>

MkdirCall == [name |-> "MkdirAll", args |-> <<req.rootDir>>]
InitCmd == GitCall(<<ArgC, req.rootDir, ArgInit>>)
RemoteCmd == GitCall(<<ArgC, req.rootDir, ArgRemote, ArgAdd, ArgOrigin, req.remoteUrl>>)

\* C9: Init creates the directory, then runs git init, then git remote add
\* origin; a step runs only if all the earlier ones succeeded, the error
\* returned is the one of the step that failed, and nothing runs after a
\* failed remote registration.
C9_InitOrder ==
    req.op = "Init" =>
        IF env.mkdirErr # "nil"
        THEN calls = <<MkdirCall>> /\ ret.err = env.mkdirErr
        ELSE IF env.runErrs[1] # "nil"
        THEN calls = <<MkdirCall, InitCmd>> /\ ret.err = env.runErrs[1]
        ELSE calls = <<MkdirCall, InitCmd, RemoteCmd>> /\ ret.err = env.runErrs[2]

C9_Witness ==
    /\ req.op = "Init"
    /\ env.mkdirErr = "nil" /\ env.runErrs[1] = "nil" /\ env.runErrs[2] # "nil"
    /\ Len(calls) = 3
    /\ calls[3] = RemoteCmd
    /\ ret.err = env.runErrs[2]

\* C10: GetCommitIterator runs exactly one command, whatever the outcome (no
\* retry after a process or decode failure), and the iterator it returns
\* holds every commit decoded from that command's output.
C10_OneInvocation ==
    req.op = "GetCommitIterator" =>
        /\ NumRuns = 1
        /\ Len(calls) = 1
        /\ (ret.err = "nil" =>
               ret.commits = processGitLogOutput(env.out, req.rootDir).commits)

C10_Witness ==
    /\ req.op = "GetCommitIterator"
    /\ RunErr = "nil"
    /\ ret.err = "SyntaxError"
    /\ NumRuns = 1

====
